---- MODULE Spec2Model ----
(***************************************************************************)
(* Model of src/main.py: the scan for large files                          *)
(* (find_large_files_in_paths) and the control-CSV reconciliation          *)
(* (gestionar_csv_cambios).                                                *)
(*                                                                         *)
(* A path is a sequence of names (os.path.join appends a name).  The       *)
(* filesystem is a set of directories and a table of non-directory         *)
(* entries; it is static while a run is in progress and may change between *)
(* runs.  Every directory is listable and a stat() that succeeded in       *)
(* os.path.isfile succeeds again in os.path.getsize, so the except-branches*)
(* of lines 94-96 and 119-121 are not taken.                               *)
(***************************************************************************)
EXTENDS Integers, Sequences, FiniteSets, TLC

VARIABLES
    pc,                 \* "idle": no run in progress; "done": a run has just returned
    dirs,               \* filesystem: the directories that exist
    files,              \* filesystem: FilePaths -> entry (absent / regular / special)
    control_file,       \* 'control_changes.csv': [exists, content]
    paths_to_scan,      \* my_paths of line 157, the roots every run is called with
    min_size_mb,        \* the threshold every run is called with
    large_files,        \* list of <<size, path>> after line 129
    printed,            \* the results listing, lines 135-144
    warnings,           \* the roots warned about, line 85
    pbars,              \* one progress bar per valid root: [path, total, n]
    df,                 \* the DataFrame of line 150
    archivos_nuevos,    \* line 32
    archivos_eliminados,\* line 41
    console,            \* what gestionar_csv_cambios printed (section titles, status)
    runs,               \* number of runs started
    changes,            \* number of filesystem changes made
    log                 \* history: per completed run, its DataFrame and whether its
                        \* path set differed from the control file it met

vars == <<pc, dirs, files, control_file, paths_to_scan, min_size_mb, large_files,
          printed, warnings, pbars, df, archivos_nuevos, archivos_eliminados,
          console, runs, changes, log>>

-----------------------------------------------------------------------------
(* Bounds of the model *)

MaxFiles == 2
MaxRuns == 2
MaxChanges == 1
MaxRoots == 2

-----------------------------------------------------------------------------
(* Program constants *)

MiB == 1024 * 1024
GiB == 1024 * 1024 * 1024

excluded_dirs ==
    << "System Volume Information", "$Recycle.Bin", "Windows", "Recovery",
       "PerfLogs", "Drivers", "Config.Msi", "MSOCache" >>

Range(s) == { s[i] : i \in 1..Len(s) }

-----------------------------------------------------------------------------
(* The filesystem the model ranges over *)

DirPaths ==
    { <<"data">>, <<"data", "sub">>, <<"data", "sub", "Windows">>,
      <<"data", "Drivers">> }

FilePaths ==
    { <<"data", "a.bin">>, <<"data", "Recovery">>, <<"data", "sub", "c.bin">>,
      <<"data", "sub", "Windows", "w.bin">>, <<"data", "Drivers", "d.sys">> }

\* The order in which a directory listing returns names.
ListingOrder ==
    << "a.bin", "c.bin", "d.sys", "w.bin", "data", "sub", "Drivers", "Recovery",
       "Windows" >>

Sizes == { 100 * MiB, GiB, GiB + (GiB \div 2) + 1 }

MinSizesMb == { 100, 1024 }

RootCandidates == { <<"data">>, <<"data", "Drivers">>, <<"data", "a.bin">> }

\* my_paths of lines 157-162: one root stands for the script's list of roots.
my_paths == << <<"data">> >>

\* def find_large_files_in_paths(paths_to_scan, min_size_mb=100)
DefaultMinSizeMb == 100

NoFile == [kind |-> "none", size |-> 0]

Entries ==
    { NoFile, [kind |-> "special", size |-> 0] }
        \cup { [kind |-> "regular", size |-> s] : s \in Sizes }

Parent(p) == SubSeq(p, 1, Len(p) - 1)

ParentClosed(D) == \A d \in D : Len(d) > 1 => Parent(d) \in D

FilesOk(D, f) ==
    /\ \A p \in FilePaths : f[p] # NoFile => Parent(p) \in D
    /\ Cardinality({ p \in FilePaths : f[p] # NoFile }) <= MaxFiles

SeqsUpTo(S, n) == UNION { [1..k -> S] : k \in 0..n }

-----------------------------------------------------------------------------
(* The library calls, as the code uses them *)

os_path_isdir(path) == path \in dirs

os_path_isfile(path) == path \in FilePaths /\ files[path].kind = "regular"

os_path_getsize(path) == files[path].size

os_path_join(dirpath, name) == Append(dirpath, name)

\* The names os.walk lists in a directory: sub-directories, and all the rest.
ListDirnames(top) ==
    SelectSeq(ListingOrder, LAMBDA n : os_path_join(top, n) \in dirs)

ListFilenames(top) ==
    SelectSeq(ListingOrder,
              LAMBDA n : /\ os_path_join(top, n) \in FilePaths
                         /\ files[os_path_join(top, n)] # NoFile)

\* Variant: the filter of dirnames is missing.
FilterNothing(dirnames) == dirnames

\* dirnames[:] = [d for d in dirnames if d not in excluded_dirs]
FilterExcluded(dirnames) ==
    SelectSeq(dirnames, LAMBDA d : d \notin Range(excluded_dirs))

\* os.walk(top), top-down, with the caller's in-place filter of dirnames
\* applied before the walk descends.  A top that cannot be listed yields
\* nothing.
RECURSIVE os_walk(_)
RECURSIVE WalkChildren(_, _, _)
os_walk(top) ==
    IF top \notin dirs
    THEN << >>
    ELSE LET dn == FilterExcluded(ListDirnames(top))
         IN  << [dirpath |-> top, dirnames |-> dn,
                 filenames |-> ListFilenames(top)] >>
                 \o WalkChildren(top, dn, 1)

WalkChildren(top, dn, i) ==
    IF i > Len(dn)
    THEN << >>
    ELSE os_walk(os_path_join(top, dn[i])) \o WalkChildren(top, dn, i + 1)

-----------------------------------------------------------------------------
(* find_large_files_in_paths, phase 1 *)

\* total_dirs of lines 89-93
RECURSIVE CountDirs(_, _)
CountDirs(walk, i) ==
    IF i > Len(walk)
    THEN 0
    ELSE (Len(walk[i].dirnames) + 1) + CountDirs(walk, i + 1)

\* Variant: the size test is strict.
ExceedsThreshold(file_size, min_size_bytes) == file_size > min_size_bytes

\* if file_size >= min_size_bytes
MeetsThreshold(file_size, min_size_bytes) == file_size >= min_size_bytes

\* The inner loop over the filenames of one directory, lines 112-121
RECURSIVE ScanFilenames(_, _, _, _)
ScanFilenames(dirpath, filenames, i, min_size_bytes) ==
    IF i > Len(filenames)
    THEN << >>
    ELSE LET file_path == os_path_join(dirpath, filenames[i])
             found == IF /\ os_path_isfile(file_path)
                         /\ MeetsThreshold(os_path_getsize(file_path),
                                           min_size_bytes)
                      THEN << <<os_path_getsize(file_path), file_path>> >>
                      ELSE << >>
         IN  found \o ScanFilenames(dirpath, filenames, i + 1, min_size_bytes)

\* The loop over the walk of one root, lines 103-122
RECURSIVE ScanWalk(_, _, _)
ScanWalk(walk, i, min_size_bytes) ==
    IF i > Len(walk)
    THEN << >>
    ELSE ScanFilenames(walk[i].dirpath, walk[i].filenames, 1, min_size_bytes)
             \o ScanWalk(walk, i + 1, min_size_bytes)

\* tqdm(total=total_dirs if total_dirs > 0 else None): << >> stands for None
PbarTotal(total_dirs) == IF total_dirs > 0 THEN << total_dirs >> ELSE << >>

\* One iteration of `for path in paths_to_scan`, lines 84-122
LoopBody(path, min_size_bytes, acc) ==
    IF ~ os_path_isdir(path)
    THEN [acc EXCEPT !.warnings = Append(@, path)]
    ELSE LET total_dirs == CountDirs(os_walk(path), 1)
             walk == os_walk(path)
         IN  [acc EXCEPT
                !.large_files = @ \o ScanWalk(walk, 1, min_size_bytes),
                !.pbars = Append(@, [path |-> path,
                                     total |-> PbarTotal(total_dirs),
                                     n |-> Len(walk)])]

\* Variant: an invalid root ends the loop (break for continue).
RECURSIVE ForEachPathBreak(_, _, _, _)
ForEachPathBreak(paths, i, min_size_bytes, acc) ==
    IF i > Len(paths)
    THEN acc
    ELSE IF ~ os_path_isdir(paths[i])
         THEN LoopBody(paths[i], min_size_bytes, acc)
         ELSE ForEachPathBreak(paths, i + 1, min_size_bytes,
                               LoopBody(paths[i], min_size_bytes, acc))

\* for path in paths_to_scan, lines 83-122
RECURSIVE ForEachPath(_, _, _, _)
ForEachPath(paths, i, min_size_bytes, acc) ==
    IF i > Len(paths)
    THEN acc
    ELSE ForEachPath(paths, i + 1, min_size_bytes,
                     LoopBody(paths[i], min_size_bytes, acc))

Phase1(paths, mb) ==
    ForEachPath(paths, 1, mb * MiB,
                [large_files |-> << >>, warnings |-> << >>, pbars |-> << >>])

-----------------------------------------------------------------------------
(* find_large_files_in_paths, phase 2 *)

\* large_files.sort(key=lambda x: x[0], reverse=True): a stable sort, equal
\* sizes keep their order of discovery.
InsertDesc(sorted, x) ==
    LET k == Cardinality({ j \in 1..Len(sorted) : sorted[j][1] >= x[1] })
    IN  SubSeq(sorted, 1, k) \o << x >> \o SubSeq(sorted, k + 1, Len(sorted))

\* Variant: the list is left in its order of discovery.
Unsorted(s) == s

RECURSIVE SortDesc(_)
SortDesc(s) ==
    IF s = << >>
    THEN << >>
    ELSE InsertDesc(SortDesc(SubSeq(s, 1, Len(s) - 1)), s[Len(s)])

\* f"{size / unit:.2f}" for unit = 1024**2 or 1024**3: size / unit is exact in
\* a double, and the format rounds it to the nearest hundredth, ties to the
\* even one.  The result is the number of hundredths.  The quotient is taken
\* in two steps of 1024 so that no intermediate value leaves 32 bits.
Hundredths(size, unit) ==
    LET q    == size \div unit
        r    == size % unit
        u    == unit \div 1024
        a    == (r \div 1024) * 100
        rem  == (a % u) * 1024 + (r % 1024) * 100
        h0   == (a \div u) + (rem \div unit)
        rem2 == rem % unit
        h    == IF 2 * rem2 > unit THEN h0 + 1
                ELSE IF 2 * rem2 < unit THEN h0
                ELSE IF h0 % 2 = 0 THEN h0 ELSE h0 + 1
    IN  q * 100 + h

TwoDecimals(size, unit, suffix) ==
    [int |-> Hundredths(size, unit) \div 100,
     frac |-> Hundredths(size, unit) % 100,
     unit |-> suffix]

\* if size > (1024**3)
UseGB(size) == size > GiB

\* size_str of lines 137-140
FormatSize(size) ==
    IF UseGB(size)
    THEN TwoDecimals(size, GiB, "GB")
    ELSE TwoDecimals(size, MiB, "MB")

\* The listing printed by lines 135-144
Listing(sorted) ==
    [i \in 1..Len(sorted) |->
        [size_str |-> FormatSize(sorted[i][1]), path |-> sorted[i][2]]]

\* The dictionary `results` after lines 135-144, and the DataFrame made of it
Results(sorted) ==
    [File_Name |-> [i \in 1..Len(sorted) |-> sorted[i][2]],
     File_Size |-> [i \in 1..Len(sorted) |-> sorted[i][1]]]

-----------------------------------------------------------------------------
(* The control CSV file *)

NoControlFile == [exists |-> FALSE, content |-> << >>]

CsvHeader == << "File_Name", "File_Size" >>

\* DataFrame.to_csv(file, index=False): a header row, then one row per record
to_csv(frame) ==
    [exists |-> TRUE,
     content |-> << CsvHeader >> \o
                 [i \in 1..Len(frame.File_Name) |->
                     << frame.File_Name[i], frame.File_Size[i] >>]]

\* pd.read_csv(file): the rows after the header, by column
read_csv(file) ==
    [File_Name |-> [i \in 1..(Len(file.content) - 1) |-> file.content[i + 1][1]],
     File_Size |-> [i \in 1..(Len(file.content) - 1) |-> file.content[i + 1][2]]]

-----------------------------------------------------------------------------
(* gestionar_csv_cambios *)

TitleNuevos == "Archivos NUEVOS"
TitleEliminados == "Archivos ELIMINADOS"
StatusUpdated == "SE ACTUALIZO LA BASE DE DATOS"
StatusNotUpdated == "NO SE ACTUALIZO LA BASE DE DATOS"

\* Variant: only new files trigger the update.
UpdateOnNewOnly(nuevos, eliminados) == nuevos # {}

\* Variant: every run rewrites the file.
UpdateAlways(nuevos, eliminados) == TRUE

\* if archivos_nuevos or archivos_eliminados
ShouldUpdate(nuevos, eliminados) == nuevos # {} \/ eliminados # {}

\* What the comparison branch, lines 25-53, leaves behind
CompareAndUpdate(df_nueva_ejecucion, file) ==
    LET df_existente == read_csv(file)
        nombres_en_csv_existente == Range(df_existente.File_Name)
        nombres_en_nueva_ejecucion == Range(df_nueva_ejecucion.File_Name)
        nuevos == nombres_en_nueva_ejecucion \ nombres_en_csv_existente
        eliminados == nombres_en_csv_existente \ nombres_en_nueva_ejecucion
        out1 == IF nuevos # {} THEN << TitleNuevos >> ELSE << >>
        out2 == IF eliminados # {} THEN << TitleEliminados >> ELSE << >>
    IN  IF ShouldUpdate(nuevos, eliminados)
        THEN [file |-> to_csv(df_nueva_ejecucion),
              nuevos |-> nuevos, eliminados |-> eliminados,
              console |-> out1 \o out2 \o << StatusUpdated >>]
        ELSE [file |-> file,
              nuevos |-> nuevos, eliminados |-> eliminados,
              console |-> out1 \o out2 \o << StatusNotUpdated >>]

\* Variant: the first run creates the file and goes on to the comparison.
gestionar_csv_cambios_fallthrough(df_nueva_ejecucion, file) ==
    IF ~ file.exists
    THEN CompareAndUpdate(df_nueva_ejecucion, to_csv(df_nueva_ejecucion))
    ELSE CompareAndUpdate(df_nueva_ejecucion, file)

\* The file, the two sets and the console output the function leaves behind
gestionar_csv_cambios(df_nueva_ejecucion, file) ==
    IF ~ file.exists
    THEN [file |-> to_csv(df_nueva_ejecucion),
          nuevos |-> {}, eliminados |-> {}, console |-> << >>]
    ELSE CompareAndUpdate(df_nueva_ejecucion, file)

-----------------------------------------------------------------------------
(* The state machine *)

\* Every filesystem of the model, with no control file yet and nothing run.
InitState ==
    /\ pc = "idle"
    /\ dirs \in { D \in SUBSET DirPaths : ParentClosed(D) }
    /\ files \in { f \in [FilePaths -> Entries] : FilesOk(dirs, f) }
    /\ control_file = NoControlFile
    /\ large_files = << >>
    /\ printed = << >>
    /\ warnings = << >>
    /\ pbars = << >>
    /\ df = Results(<< >>)
    /\ archivos_nuevos = {}
    /\ archivos_eliminados = {}
    /\ console = << >>
    /\ runs = 0
    /\ changes = 0
    /\ log = << >>

\* The script as configured in __main__: find_large_files_in_paths(my_paths)
\* with the default threshold, the directories under its root being there.
Init ==
    /\ dirs = DirPaths
    /\ InitState
    /\ paths_to_scan = my_paths
    /\ min_size_mb = DefaultMinSizeMb

\* The function called with any list of roots and any threshold.
InitCall ==
    /\ InitState
    /\ paths_to_scan \in SeqsUpTo(RootCandidates, MaxRoots)
    /\ min_size_mb \in MinSizesMb

\* One run of the script: find_large_files_in_paths(my_paths), lines 56-153
find_large_files_in_paths ==
    /\ pc = "idle"
    /\ runs < MaxRuns
    /\    LET p1     == Phase1(paths_to_scan, min_size_mb)
              sorted == SortDesc(p1.large_files)
              frame  == Results(sorted)
              g      == gestionar_csv_cambios(frame, control_file)
          IN  /\ large_files' = sorted
              /\ warnings' = p1.warnings
              /\ pbars' = p1.pbars
              /\ printed' = Listing(sorted)
              /\ df' = frame
              /\ control_file' = g.file
              /\ archivos_nuevos' = g.nuevos
              /\ archivos_eliminados' = g.eliminados
              /\ console' = g.console
              /\ log' = Append(log,
                     [df |-> frame,
                      bootstrap |-> ~ control_file.exists,
                      differed |-> /\ control_file.exists
                                   /\ Range(frame.File_Name) #
                                        { control_file.content[i][1] :
                                            i \in 2..Len(control_file.content) }])
    /\ pc' = "done"
    /\ runs' = runs + 1
    /\ UNCHANGED <<dirs, files, changes, paths_to_scan, min_size_mb>>

\* The process ends; its locals are gone, the control file stays.
Exit ==
    /\ pc = "done"
    /\ pc' = "idle"
    /\ large_files' = << >>
    /\ printed' = << >>
    /\ warnings' = << >>
    /\ pbars' = << >>
    /\ df' = Results(<< >>)
    /\ archivos_nuevos' = {}
    /\ archivos_eliminados' = {}
    /\ console' = << >>
    /\ UNCHANGED <<dirs, files, control_file, paths_to_scan, min_size_mb, runs,
                   changes, log>>

\* Between two runs a file is created, removed or replaced.
FsChange ==
    /\ pc = "idle"
    /\ changes < MaxChanges
    /\ \E p \in FilePaths, e \in Entries :
          /\ e # files[p]
          /\ FilesOk(dirs, [files EXCEPT ![p] = e])
          /\ files' = [files EXCEPT ![p] = e]
    /\ changes' = changes + 1
    /\ UNCHANGED <<pc, dirs, control_file, paths_to_scan, min_size_mb, large_files,
                   printed, warnings, pbars, df, archivos_nuevos,
                   archivos_eliminados, console, runs, log>>

\* Runs of the script over a filesystem that changes between the runs
Next == find_large_files_in_paths \/ Exit \/ FsChange

Spec == Init /\ [][Next]_vars

\* One call of the function, with any arguments, over any filesystem
NextCall == find_large_files_in_paths

SpecCall == InitCall /\ [][NextCall]_vars

-----------------------------------------------------------------------------
(* Notions the properties are stated with *)

Threshold == min_size_mb * MiB

IsPrefix(root, p) == Len(p) > Len(root) /\ SubSeq(p, 1, Len(root)) = root

\* The names of the directories between root and the file p
DirComponents(root, p) == { p[k] : k \in (Len(root) + 1)..(Len(p) - 1) }

\* p lies in a directory that the walk of the valid root reaches
Reached(root, p) ==
    /\ root \in dirs
    /\ IsPrefix(root, p)
    /\ DirComponents(root, p) \cap Range(excluded_dirs) = {}

Occurrences(s, x) == Cardinality({ i \in 1..Len(s) : s[i] = x })

RowsOf(records) ==
    [i \in 1..Len(records) |-> << records[i][2], records[i][1] >>]

SnapshotOf(records) ==
    [exists |-> TRUE, content |-> << CsvHeader >> \o RowsOf(records)]

SnapshotPaths(file) == { file.content[i][1] : i \in 2..Len(file.content) }

RunReturns == pc = "idle" /\ pc' = "done"

-----------------------------------------------------------------------------
(* C1 *)

-----------------------------------------------------------------------------
(* C2 *)

\* C2 as stated: no record's path has a name of the exclusion set as a
\* component anywhere below a scanned root.
C2_NoExcludedComponent ==
    pc = "done" =>
        \A r \in Range(large_files) : \A i \in 1..Len(paths_to_scan) :
            (paths_to_scan[i] \in dirs /\ IsPrefix(paths_to_scan[i], r[2])) =>
                { r[2][k] : k \in (Len(paths_to_scan[i]) + 1)..Len(r[2]) }
                    \cap Range(excluded_dirs) = {}

\* C2, amended: the walk of a root emits no record from a directory whose
\* name, or the name of one of its ancestors below that root, is in the
\* exclusion set: every record occurs once per listed valid root from which
\* its directory is reached through non-excluded directory names only, and
\* at least once.
C2_NoExcludedDirectory ==
    pc = "done" =>
        \A r \in Range(large_files) :
            /\ Occurrences(large_files, r) =
                  Cardinality({ i \in 1..Len(paths_to_scan) :
                                   Reached(paths_to_scan[i], r[2]) })
            /\ \E i \in 1..Len(paths_to_scan) : Reached(paths_to_scan[i], r[2])

\* A call on the root data that found records, and none for the large file of
\* data/sub/Windows, a directory pruned at depth 2.
C2_Witness ==
    /\ pc = "done"
    /\ << "data" >> \in Range(paths_to_scan)
    /\ files[<< "data", "sub", "Windows", "w.bin" >>].kind = "regular"
    /\ files[<< "data", "sub", "Windows", "w.bin" >>].size >= Threshold
    /\ large_files # << >>
    /\ \A r \in Range(large_files) : r[2] # << "data", "sub", "Windows", "w.bin" >>

-----------------------------------------------------------------------------
(* C6 *)

\* C6: the records are in non-increasing order of size, whatever root they
\* come from, and the rows of the control file written from them are in the
\* same order.
C6_SortedBySizeDescending ==
    pc = "done" =>
        /\ \A i \in 1..(Len(large_files) - 1) :
              large_files[i][1] >= large_files[i + 1][1]
        /\ control_file = SnapshotOf(large_files)

\* A call whose two roots each gave a record, the larger one found last.
C6_Witness ==
    /\ pc = "done"
    /\ Len(paths_to_scan) = 2
    /\ Len(large_files) = 2
    /\ IsPrefix(paths_to_scan[2], large_files[1][2])
    /\ ~ IsPrefix(paths_to_scan[2], large_files[2][2])
    /\ large_files[1][1] > large_files[2][1]
    /\ Len(control_file.content) = 3

-----------------------------------------------------------------------------
(* C7 *)

\* C7: a root that is not a directory gives no record and one warning, and
\* the records and progress bars of the call are those of the call without
\* the invalid roots, wherever they stand in the list.
C7_InvalidRootSkipped ==
    pc = "done" =>
        LET valid == SelectSeq(paths_to_scan, os_path_isdir)
            invalid == SelectSeq(paths_to_scan, LAMBDA p : ~ os_path_isdir(p))
        IN  /\ warnings = invalid
            /\ large_files = SortDesc(Phase1(valid, min_size_mb).large_files)
            /\ pbars = Phase1(valid, min_size_mb).pbars
            /\ \A r \in Range(large_files) :
                  \E i \in 1..Len(valid) : IsPrefix(valid[i], r[2])

\* A call whose first root is invalid and whose second root gave records.
C7_Witness ==
    /\ pc = "done"
    /\ Len(paths_to_scan) = 2
    /\ ~ os_path_isdir(paths_to_scan[1])
    /\ os_path_isdir(paths_to_scan[2])
    /\ warnings = << paths_to_scan[1] >>
    /\ large_files # << >>

-----------------------------------------------------------------------------
(* C8 *)

\* C8: every line of the listing gives the size in GB, to two decimals, when
\* it is >= 1 GiB and in MB otherwise; 1073741824 bytes are listed as 1.00 GB.
C8_GBFromOneGiB ==
    pc = "done" =>
        /\ Len(printed) = Len(large_files)
        /\ \A i \in 1..Len(large_files) :
              /\ printed[i].path = large_files[i][2]
              /\ printed[i].size_str =
                    IF large_files[i][1] >= GiB
                    THEN TwoDecimals(large_files[i][1], GiB, "GB")
                    ELSE TwoDecimals(large_files[i][1], MiB, "MB")
              /\ large_files[i][1] = GiB =>
                    printed[i].size_str = [int |-> 1, frac |-> 0, unit |-> "GB"]

-----------------------------------------------------------------------------
(* C10 *)

\* C10: for every valid root the total of the progress bar, counted by the
\* pre-walk, equals the number of updates made during the scan of the root,
\* one per directory visited.
C10_TotalEqualsUpdates ==
    pc = "done" =>
        \A i \in 1..Len(pbars) : pbars[i].total = << pbars[i].n >>

-----------------------------------------------------------------------------
(* C3 *)

-----------------------------------------------------------------------------
(* C4 *)

\* C4: a run that meets no control file writes one holding exactly the
\* path and size of the current records, also when there is none, and prints
\* neither an added/removed report nor a status.
C4_FirstRunWritesSnapshot ==
    [][ (RunReturns /\ ~ control_file.exists) =>
          /\ control_file' = SnapshotOf(large_files')
          /\ read_csv(control_file') = df'
          /\ console' = << >>
          /\ archivos_nuevos' = {}
          /\ archivos_eliminados' = {}
      ]_vars

\* A first run that found two records and wrote them.
C4_Witness ==
    /\ pc = "done"
    /\ Len(log) = 1
    /\ log[1].bootstrap
    /\ Len(large_files) = 2
    /\ Len(control_file.content) = 3
    /\ console = << >>

-----------------------------------------------------------------------------
(* C5 *)

\* The last run that met no control file or a control file with another set
\* of paths
LastWriter ==
    CHOOSE k \in 1..Len(log) :
        /\ log[k].bootstrap \/ log[k].differed
        /\ \A j \in (k + 1)..Len(log) : ~ (log[j].bootstrap \/ log[j].differed)

-----------------------------------------------------------------------------
(* C9 *)

\* C9: a run that meets a control file leaves its content as it was.
C9_ExistingFileNotOverwritten ==
    [][ (RunReturns /\ control_file.exists) => control_file' = control_file ]_vars

====
